---- MODULE Spec2Model ----
(***************************************************************************)
(* Provider dispatch engine of go-fork/sms: the retry engine (retry.Do and *)
(* the default error classifier IsRetriable) and the Module registry       *)
(* (AddProvider, SwitchProvider, GetProvider, GetActiveProvider, SendSMS,  *)
(* SendVoiceCall), the template renderer Message.Render and               *)
(* Config.Validate.                                                        *)
(*                                                                         *)
(* Strings that the code inspects (error texts, phone numbers) are         *)
(* sequences of one-character strings, so that strings.Contains,           *)
(* strings.ToLower and fmt are modelled by what they do.  Durations are    *)
(* integers (milliseconds); Multiplier is held in tenths (20 is 2.0).      *)
(***************************************************************************)
EXTENDS Integers, Sequences, FiniteSets, TLC

VARIABLES config, providers, activeProvider, writers, crashed, succeeded,
          th, frame, ctx, ret, hist, render

vars == <<config, providers, activeProvider, writers, crashed, succeeded,
          th, frame, ctx, ret, hist, render>>

\* ------------------------------------------------------------------ bounds
\* Largest MaxAttempts / retry_attempts value a policy is given.
MaxAttemptsBound == 3
\* retry_attempts of the Module the concurrent callers share.
ConcAttempts == 2

\* ------------------------------------------------------- string literals
sHTTPPrefix == <<"H","T","T","P"," ","e","r","r","o","r",":"," ","s","t","a","t","u","s"," ","c","o","d","e",":"," ">>  \* "HTTP error: status code: "
sHTTPMessage == <<","," ","m","e","s","s","a","g","e",":"," ">>  \* ", message: "
sStatusCode5 == <<"s","t","a","t","u","s"," ","c","o","d","e",":"," ","5">>  \* "status code: 5"
s500 == <<"5","0","0">>  \* "500"
s502 == <<"5","0","2">>  \* "502"
s503 == <<"5","0","3">>  \* "503"
s504 == <<"5","0","4">>  \* "504"
sTimeout == <<"t","i","m","e","o","u","t">>  \* "timeout"
sConnRefused == <<"c","o","n","n","e","c","t","i","o","n"," ","r","e","f","u","s","e","d">>  \* "connection refused"
sConnReset == <<"c","o","n","n","e","c","t","i","o","n"," ","r","e","s","e","t">>  \* "connection reset"
sTemporary == <<"t","e","m","p","o","r","a","r","y">>  \* "temporary"
sTooMany == <<"t","o","o"," ","m","a","n","y"," ","r","e","q","u","e","s","t","s">>  \* "too many requests"
sUnavailable == <<"s","e","r","v","i","c","e"," ","u","n","a","v","a","i","l","a","b","l","e">>  \* "service unavailable"
sMaxAttempts == <<"m","a","x","i","m","u","m"," ","r","e","t","r","y"," ","a","t","t","e","m","p","t","s"," ","r","e","a","c","h","e","d">>  \* "maximum retry attempts reached"
sColon == <<":"," ">>  \* ": "
sBadPolicy == <<"r","e","t","r","y"," ","a","t","t","e","m","p","t","s"," ","m","u","s","t"," ","b","e"," ","g","r","e","a","t","e","r"," ","t","h","a","n"," ","0">>  \* "retry attempts must be greater than 0"
sCanceled == <<"c","o","n","t","e","x","t"," ","c","a","n","c","e","l","e","d">>  \* "context canceled"
sDeadline == <<"c","o","n","t","e","x","t"," ","d","e","a","d","l","i","n","e"," ","e","x","c","e","e","d","e","d">>  \* "context deadline exceeded"
sServerError == <<"S","e","r","v","e","r"," ","e","r","r","o","r">>  \* "Server error"
sBadRequest == <<"B","a","d"," ","r","e","q","u","e","s","t">>  \* "Bad request"
sTooManyMsg == <<"T","o","o"," ","m","a","n","y"," ","r","e","q","u","e","s","t","s">>  \* "Too many requests"
sGatewayTimeoutMsg == <<"G","a","t","e","w","a","y"," ","T","i","m","e","o","u","t">>  \* "Gateway Timeout"
sDialRefused == <<"d","i","a","l",":"," ","c","o","n","n","e","c","t","i","o","n"," ","r","e","f","u","s","e","d">>  \* "dial: connection refused"
sInvalidPhone == <<"i","n","v","a","l","i","d"," ","p","h","o","n","e"," ","n","u","m","b","e","r">>  \* "invalid phone number"
sNoActive == <<"n","o"," ","a","c","t","i","v","e"," ","p","r","o","v","i","d","e","r"," ","s","e","t">>  \* "no active provider set"

\* ------------------------------------------------------ string functions
UpperChars == <<"A","B","C","D","E","F","G","H","I","J","K","L","M","N","O","P","Q","R","S","T","U","V","W","X","Y","Z">>
LowerChars == <<"a","b","c","d","e","f","g","h","i","j","k","l","m","n","o","p","q","r","s","t","u","v","w","x","y","z">>
DigitChars == <<"0","1","2","3","4","5","6","7","8","9">>

LowerChar(c) ==
  IF \E i \in 1..26 : UpperChars[i] = c
  THEN LowerChars[CHOOSE i \in 1..26 : UpperChars[i] = c]
  ELSE c

\* strings.ToLower
ToLower(s) == [i \in 1..Len(s) |-> LowerChar(s[i])]

\* strings.Contains
Contains(s, sub) ==
  \E i \in 1..(Len(s) - Len(sub) + 1) : SubSeq(s, i, i + Len(sub) - 1) = sub

\* the %d verb of fmt for a non-negative integer
RECURSIVE Itoa(_)
Itoa(n) ==
  IF n < 10 THEN <<DigitChars[n + 1]>>
  ELSE Itoa(n \div 10) \o <<DigitChars[(n % 10) + 1]>>

\* ------------------------------------------------------------- errors
\* An error value is what errors.Is / errors.As can find in its chain
\* (ids), the StatusCode of the *HTTPError in the chain (0 when there is
\* none), the Field of the *ValidationError in the chain ("" when there is
\* none) and the text Error() returns.  NoErr is Go's nil error.
NoErr == [ids |-> {}, status |-> 0, field |-> "", text |-> <<>>]

\* errors.New(text)
PlainError(text) == [ids |-> {"error"}, status |-> 0, field |-> "", text |-> text]

\* (*HTTPError).Error
HTTPErrorText(code, msg) == sHTTPPrefix \o Itoa(code) \o sHTTPMessage \o msg

\* &HTTPError{StatusCode: code, Message: msg}
HTTPError(code, msg) ==
  [ids |-> {"error", "http"}, status |-> code, field |-> "", text |-> HTTPErrorText(code, msg)]

\* &net.OpError{...}: implements net.Error
NetError(text) == [ids |-> {"error", "net"}, status |-> 0, field |-> "", text |-> text]

\* &url.Error{Op: "Post", URL: "u", Err: err}, what an http.Client returns:
\* it wraps err, and *url.Error has Timeout() and Temporary(), so it
\* satisfies net.Error as well.
URLError(err) ==
  [ids |-> err.ids \cup {"url", "net"}, status |-> err.status, field |-> err.field,
   text |-> <<"P","o","s","t"," ","\"","u","\"",":"," ">> \o err.text]

\* context.Canceled
Canceled == [ids |-> {"error", "Canceled"}, status |-> 0, field |-> "", text |-> sCanceled]

\* context.DeadlineExceeded: its type has Timeout() and Temporary(), so it
\* also satisfies net.Error
DeadlineExceeded ==
  [ids |-> {"error", "DeadlineExceeded", "net"}, status |-> 0, field |-> "", text |-> sDeadline]

\* var ErrMaxAttemptsReached
ErrMaxAttemptsReached ==
  [ids |-> {"error", "ErrMaxAttemptsReached"}, status |-> 0, field |-> "", text |-> sMaxAttempts]

\* fmt.Errorf("%w: %v", ErrMaxAttemptsReached, err): only the marker is
\* wrapped, err contributes its text
WrapMaxAttempts(err) ==
  [ids    |-> ErrMaxAttemptsReached.ids,
   status |-> 0,
   field  |-> "",
   text   |-> ErrMaxAttemptsReached.text \o sColon \o err.text]

\* errors.Is(err, target) for the sentinel errors, errors.As for the types
ErrorIs(err, id) == id \in err.ids

\* IsRetriable, rule by rule in the order of the code
IsRetriable(err) ==
  IF err = NoErr THEN FALSE
  ELSE IF ErrorIs(err, "net") THEN TRUE
  ELSE IF ErrorIs(err, "DeadlineExceeded") \/ ErrorIs(err, "Canceled") THEN FALSE
  ELSE IF ErrorIs(err, "url") THEN TRUE
  ELSE IF \/ Contains(err.text, sStatusCode5)
          \/ Contains(err.text, s500)
          \/ Contains(err.text, s502)
          \/ Contains(err.text, s503)
          \/ Contains(err.text, s504) THEN TRUE
  ELSE IF \/ Contains(ToLower(err.text), sTimeout)
          \/ Contains(ToLower(err.text), sConnRefused)
          \/ Contains(ToLower(err.text), sConnReset)
          \/ Contains(ToLower(err.text), sTemporary)
          \/ Contains(ToLower(err.text), sTooMany)
          \/ Contains(ToLower(err.text), sUnavailable) THEN TRUE
  ELSE IF ErrorIs(err, "http") THEN err.status >= 500 \/ err.status = 429
  ELSE FALSE

\* ctx.Err() once the context is done
CtxErr(kind) == IF kind = "Canceled" THEN Canceled ELSE DeadlineExceeded

\* ------------------------------------------------------------ retry.Do
\* Config.RetriableErrors: "nil" selects IsRetriable; the custom
\* classifiers are "all" (every error is retriable) and "none".
Classify(cfg, err) ==
  IF cfg.RetriableErrors = "nil" THEN IsRetriable(err)
  ELSE cfg.RetriableErrors = "all"

\* time.Duration(float64(delay) * config.Multiplier), capped at MaxDelay
NextDelay(cfg, delay) ==
  LET nextDelay == (delay * cfg.Multiplier) \div 10
  IN  IF nextDelay > cfg.MaxDelay THEN cfg.MaxDelay ELSE nextDelay

\* The frame of a Do call that is not running.
NoFrame ==
  [cfg |-> [MaxAttempts |-> 0, InitialDelay |-> 0, MaxDelay |-> 0,
            Multiplier |-> 0, RetriableErrors |-> "nil"],
   attempt |-> 0, delay |-> 0, err |-> NoErr, timerFired |-> FALSE,
   waits |-> <<>>, result |-> NoErr]

\* A Do that rejects only a negative MaxAttempts.
DoEnter_AllowZero(cfg) ==
  IF cfg.MaxAttempts < 0
  THEN [pc |-> "done", f |-> [NoFrame EXCEPT !.cfg = cfg, !.result = PlainError(sBadPolicy)]]
  ELSE [pc |-> "attempt", f |-> [NoFrame EXCEPT !.cfg = cfg, !.delay = cfg.InitialDelay]]

\* Entry of Do: the MaxAttempts check and the initial values of the locals.
\* The result is the frame and the position: "attempt" (the loop is
\* entered) or "done" (Do returns frame.result).
DoEnter(cfg) ==
  IF cfg.MaxAttempts <= 0
  THEN [pc |-> "done", f |-> [NoFrame EXCEPT !.cfg = cfg, !.result = PlainError(sBadPolicy)]]
  ELSE [pc |-> "attempt", f |-> [NoFrame EXCEPT !.cfg = cfg, !.delay = cfg.InitialDelay]]

\* DoAfterFn with the last-attempt test off by one (attempt == MaxAttempts).
DoAfterFn_OffByOne(f, err) ==
  IF err = NoErr
  THEN [pc |-> "done", f |-> [f EXCEPT !.err = err, !.result = NoErr]]
  ELSE IF f.attempt = f.cfg.MaxAttempts \/ ~Classify(f.cfg, err)
  THEN [pc |-> "done", f |-> [f EXCEPT !.err = err, !.result = err]]
  ELSE LET d == NextDelay(f.cfg, f.delay)
       IN  [pc |-> "timer",
            f  |-> [f EXCEPT !.err = err, !.delay = d, !.timerFired = FALSE,
                             !.waits = Append(@, d)]]

\* DoAfterFn that never consults the classifier.
DoAfterFn_IgnoreClassifier(f, err) ==
  IF err = NoErr
  THEN [pc |-> "done", f |-> [f EXCEPT !.err = err, !.result = NoErr]]
  ELSE IF f.attempt = f.cfg.MaxAttempts - 1
  THEN [pc |-> "done", f |-> [f EXCEPT !.err = err, !.result = WrapMaxAttempts(err)]]
  ELSE LET d == NextDelay(f.cfg, f.delay)
       IN  [pc |-> "timer",
            f  |-> [f EXCEPT !.err = err, !.delay = d, !.timerFired = FALSE,
                             !.waits = Append(@, d)]]

\* DoAfterFn without the early return on err == nil: a nil error goes
\* through the classifier like any other.
DoAfterFn_NoNilReturn(f, err) ==
  IF f.attempt = f.cfg.MaxAttempts - 1 \/ ~Classify(f.cfg, err)
  THEN IF f.attempt = f.cfg.MaxAttempts - 1 /\ err # NoErr
       THEN [pc |-> "done", f |-> [f EXCEPT !.err = err, !.result = WrapMaxAttempts(err)]]
       ELSE [pc |-> "done", f |-> [f EXCEPT !.err = err, !.result = err]]
  ELSE LET d == NextDelay(f.cfg, f.delay)
       IN  [pc |-> "timer",
            f  |-> [f EXCEPT !.err = err, !.delay = d, !.timerFired = FALSE,
                             !.waits = Append(@, d)]]

\* One pass of the loop body after fn returned err: return nil, return the
\* error (marked when this was the last attempt), or compute the next
\* delay and start the timer.
DoAfterFn(f, err) ==
  IF err = NoErr
  THEN [pc |-> "done", f |-> [f EXCEPT !.err = err, !.result = NoErr]]
  ELSE IF f.attempt = f.cfg.MaxAttempts - 1 \/ ~Classify(f.cfg, err)
  THEN IF f.attempt = f.cfg.MaxAttempts - 1
       THEN [pc |-> "done", f |-> [f EXCEPT !.err = err, !.result = WrapMaxAttempts(err)]]
       ELSE [pc |-> "done", f |-> [f EXCEPT !.err = err, !.result = err]]
  ELSE LET d == NextDelay(f.cfg, f.delay)
       IN  [pc |-> "timer",
            f  |-> [f EXCEPT !.err = err, !.delay = d, !.timerFired = FALSE,
                             !.waits = Append(@, d)]]

\* A timer case that starts the wait over instead of going on with the loop.
DoAfterTimer_WaitAgain(f) ==
  [pc |-> "timer", f |-> [f EXCEPT !.timerFired = FALSE]]

\* The select took the timer case: attempt++ and the loop condition.
\* The wait is only reached with attempt < MaxAttempts-1, so the loop
\* always continues; the return after the loop is kept for completeness.
DoAfterTimer(f) ==
  IF f.attempt + 1 < f.cfg.MaxAttempts
  THEN [pc |-> "attempt", f |-> [f EXCEPT !.attempt = @ + 1]]
  ELSE [pc |-> "done", f |-> [f EXCEPT !.attempt = @ + 1, !.result = f.err]]

\* A select whose ctx.Done() case goes on with the loop.
DoAfterCtxDone_Continue(f, kind) == DoAfterTimer(f)

\* The select took the ctx.Done() case: timer.Stop(); return ctx.Err().
DoAfterCtxDone(f, kind) ==
  [pc |-> "done", f |-> [f EXCEPT !.result = CtxErr(kind)]]

\* ------------------------------------------- string literals (module)
sValidation == <<"v","a","l","i","d","a","t","i","o","n"," ","e","r","r","o","r",":"," ">>  \* "validation error: "
sDash == <<" ","-"," ">>  \* " - "
sTo == <<"t","o">>  \* "to"
sFrom == <<"f","r","o","m">>  \* "from"
sBadRecipient == <<"i","n","v","a","l","i","d"," ","r","e","c","i","p","i","e","n","t"," ","p","h","o","n","e"," ","n","u","m","b","e","r">>  \* "invalid recipient phone number"
sEmptySender == <<"s","e","n","d","e","r"," ","i","d","e","n","t","i","f","i","e","r"," ","c","a","n","n","o","t"," ","b","e"," ","e","m","p","t","y">>  \* "sender identifier cannot be empty"
sSendSMSFailed == <<"f","a","i","l","e","d"," ","t","o"," ","s","e","n","d"," ","S","M","S"," ","a","f","t","e","r"," ">>  \* "failed to send SMS after "
sSendVoiceFailed == <<"f","a","i","l","e","d"," ","t","o"," ","s","e","n","d"," ","v","o","i","c","e"," ","c","a","l","l"," ","a","f","t","e","r"," ">>  \* "failed to send voice call after "
sAttempts == <<" ","a","t","t","e","m","p","t","s",":"," ">>  \* " attempts: "
sGoodNumber == <<"+","1","2","3","4","5","6","7","8","9","0">>  \* "+1234567890"
sFormattedNumber == <<"+","1"," ","(","2","3","4",")"," ","5","6","7","-","8","9","0">>  \* "+1 (234) 567-890"
sShortNumber == <<"+","1","2","3">>  \* "+123"
sInvalid == <<"i","n","v","a","l","i","d">>  \* "invalid"
sSender == <<"S","e","n","d","e","r">>  \* "Sender"

\* ------------------------------------------------------------ requests
\* strings.ReplaceAll(s, c, "") for each of the four formatting characters
Cleaned(phoneNumber) ==
  SelectSeq(phoneNumber, LAMBDA c : c \notin {" ", "-", "(", ")"})

\* regexp `^\d+$`
AllDigits(s) ==
  /\ Len(s) >= 1
  /\ \A i \in 1..Len(s) : \E d \in 1..10 : DigitChars[d] = s[i]

\* A check that counts the leading "+" among the 8 characters.
ValidatePhoneNumber_CountsPlus(phoneNumber) ==
  LET cleaned == Cleaned(phoneNumber)
  IN  IF Len(cleaned) >= 1 /\ cleaned[1] = "+"
      THEN Len(cleaned) >= 8 /\ AllDigits(Tail(cleaned))
      ELSE Len(cleaned) >= 8 /\ AllDigits(cleaned)

ValidatePhoneNumber(phoneNumber) ==
  LET cleaned == Cleaned(phoneNumber)
  IN  IF Len(cleaned) >= 1 /\ cleaned[1] = "+"
      THEN LET digits == Tail(cleaned)
           IN  Len(digits) >= 8 /\ AllDigits(digits)
      ELSE Len(cleaned) >= 8 /\ AllDigits(cleaned)

\* &ValidationError{Field: field, Message: msg} and its Error()
ValidationError(field, fieldText, msg) ==
  [ids |-> {"error", "validation"}, status |-> 0, field |-> field,
   text |-> sValidation \o fieldText \o sDash \o msg]

\* Validate without the check of the sender.
Validate_NoSenderCheck(req) ==
  IF ~ValidatePhoneNumber(req.To) THEN ValidationError("to", sTo, sBadRecipient)
  ELSE NoErr

\* SendSMSRequest.Validate and SendVoiceRequest.Validate (the same body)
Validate(req) ==
  IF ~ValidatePhoneNumber(req.To) THEN ValidationError("to", sTo, sBadRecipient)
  ELSE IF req.From = <<>> THEN ValidationError("from", sFrom, sEmptySender)
  ELSE NoErr

\* The requests the callers send: Message.To and Message.From.
NoReq == [To |-> <<>>, From |-> <<>>]
Requests ==
  { [To |-> sGoodNumber,      From |-> sSender],
    [To |-> sInvalid,         From |-> sSender],
    [To |-> sShortNumber,     From |-> sSender],
    [To |-> sGoodNumber,      From |-> <<>>] }

\* ----------------------------------------------------------- providers
\* Provider instances (distinct objects) and the name each one's Name()
\* returns; p1a and p1b are two instances with the same name.
Nil == "nil"
Instances == {"p1a", "p1b", "p2"}
Name(p) == IF p \in {"p1a", "p1b"} THEN "n1" ELSE "n2"

\* The names callers and the configuration use; "n3" is never registered.
Names == {"n1", "n2", "n3"}

\* SendSMSResponse / SendVoiceResponse: the identifier the backend
\* assigned (here: the instance that produced it) and the Provider field.
NoResp == [ID |-> "", Provider |-> ""]

\* What an invocation of a backend can return: a response whose Provider
\* field the backend left empty or set itself, or an error.  The interface
\* lets a backend return a filled response together with its error; the
\* bundled adapters return the zero response then.
ProviderErrors ==
  { HTTPError(500, sServerError), HTTPError(400, sBadRequest) }

\* The speedsms adapter has no voice calls; p1b is an instance of it.
SupportsVoice(p) == p # "p1b"

\* fmt.Errorf("voice calls are not supported by the SpeedSMS provider")
ErrVoiceUnsupported ==
  PlainError(
    <<"v","o","i","c","e"," ","c","a","l","l","s"," ","a","r","e"," ","n",
       "o","t"," ","s","u","p","p","o","r","t","e","d"," ","b","y"," ","t",
       "h","e"," ","S","p","e","e","d","S","M","S"," ","p","r","o","v","i",
       "d","e","r">>)

ProviderOutcomes(p, op) ==
  IF op = "SendVoiceCall" /\ ~SupportsVoice(p)
  THEN { [resp |-> NoResp, err |-> ErrVoiceUnsupported] }
  ELSE { [resp |-> [ID |-> p, Provider |-> ""], err |-> NoErr],
         [resp |-> [ID |-> p, Provider |-> "brand"], err |-> NoErr] }
       \cup { [resp |-> NoResp, err |-> e] : e \in ProviderErrors }
       \cup { [resp |-> [ID |-> p, Provider |-> ""], err |-> HTTPError(400, sBadRequest)] }

\* What the operation handed to a direct retry.Do call can return.
OpErrors ==
  { HTTPError(500, sServerError), HTTPError(400, sBadRequest),
    HTTPError(429, sTooManyMsg), HTTPError(400, sGatewayTimeoutMsg),
    NetError(sDialRefused), PlainError(sInvalidPhone),
    Canceled, DeadlineExceeded, URLError(Canceled) }
OpOutcomes == { [resp |-> NoResp, err |-> e] : e \in OpErrors \cup {NoErr} }

\* fmt.Errorf("failed to send SMS after %d attempts: %w", RetryAttempts, err)
WrapSendError(prefix, attempts, err) ==
  [err EXCEPT !.text = prefix \o Itoa(attempts) \o sAttempts \o err.text]

sAlreadyRegistered == <<"a","l","r","e","a","d","y"," ","r","e","g","i","s","t","e","r","e","d">>
sNotFound == <<"n","o","t"," ","f","o","u","n","d">>

\* fmt.Errorf("no active provider set")
ErrNoActiveProvider == PlainError(sNoActive)

\* --------------------------------------------------------------- state
\* config          the *config.Config of the Module
\* providers       Module.providers: name -> instance (Nil: no entry)
\* activeProvider  Module.activeProvider (Nil: unset)
\* writers         the callers that are inside the assignment to the map
\* crashed         the runtime stopped the process (concurrent map access)
\* succeeded       the instances whose AddProvider call returned nil
\* th              per caller: the call in progress, its position, its
\*                 arguments and the closure's response variable
\* frame           per caller: the locals of its retry.Do call
\* ctx             per caller: the state of the context it passed
\* ret             per caller: what the call returned
\* hist            per caller: the invocations the call made so far
Threads == {"t1", "t2"}

\* retry.Config literals of SendSMS / SendVoiceCall
SendMaxDelay == 30000
SendMultiplier == 20

NoCall == [op |-> "idle", pc |-> "idle", prov |-> Nil, name |-> "",
           req |-> NoReq, resp |-> NoResp, arg |-> <<>>]
NoRet == [err |-> NoErr, resp |-> NoResp, prov |-> Nil, ok |-> FALSE,
          str |-> <<>>]
NoHist == [invoked |-> <<>>, kinds |-> <<>>, cancelPc |-> "none",
           cancelCalls |-> 0, active0 |-> Nil]

\* The policies handed to a direct retry.Do call.
DoConfigs ==
  [MaxAttempts : -1..MaxAttemptsBound, InitialDelay : {0, 100},
   MaxDelay : {150, 30000}, Multiplier : {10, 20},
   RetriableErrors : {"nil", "all", "none"}]

\* const DefaultSMSTemplate, DefaultVoiceTemplate
DefaultSMSTemplate == <<"Y","o","u","r"," ","m","e","s","s","a","g","e"," ","i","s"," ","{","m","e","s","s","a","g","e","}">>  \* "Your message is {message}"
DefaultVoiceTemplate == <<"Y","o","u","r"," ","m","e","s","s","a","g","e"," ","i","s"," ","{","m","e","s","s","a","g","e","}">>  \* "Your message is {message}"

\* The configurations a Module is built from (config.Validate accepted
\* them: retry_attempts >= 0, retry_delay > 0).  The default provider is
\* one that gets registered ("n1") or one that never is ("n3").
Configs ==
  [DefaultProvider : {"n1", "n3"}, RetryAttempts : 0..MaxAttemptsBound,
   RetryDelay : {500, 20000}, SMSTemplate : {DefaultSMSTemplate},
   VoiceTemplate : {DefaultVoiceTemplate}]

\* The caller's view of its Render calls: the map it holds (data), the map
\* as it first built it (orig) and as it was when the last call was made
\* (before), the arguments and the result of the last call and of the
\* call before it (prev); op is "Render" for a call by the caller itself
\* and the provider method for a call a provider made for a request whose
\* Template is reqTemplate.
NoRender ==
  [calls |-> 0,
   orig |-> [nil |-> TRUE, m |-> <<>>],
   before |-> [nil |-> TRUE, m |-> <<>>], data |-> [nil |-> TRUE, m |-> <<>>],
   m |-> [From |-> <<>>, To |-> <<>>, By |-> <<>>], template |-> <<>>,
   out |-> <<>>, op |-> "", reqTemplate |-> <<>>,
   prev |-> [m |-> [From |-> <<>>, To |-> <<>>, By |-> <<>>],
             template |-> <<>>, out |-> <<>>]]

Init ==
  /\ config \in Configs
  /\ providers = [n \in Names |-> Nil]
  /\ activeProvider = Nil
  /\ writers = {}
  /\ crashed = FALSE
  /\ succeeded = {}
  /\ th = [t \in Threads |-> NoCall]
  /\ frame = [t \in Threads |-> NoFrame]
  /\ ctx = [t \in Threads |-> "none"]
  /\ ret = [t \in Threads |-> NoRet]
  /\ hist = [t \in Threads |-> NoHist]
  /\ render = NoRender

registry == <<providers, activeProvider, writers, crashed, succeeded>>

Idle(t) == ~crashed /\ th[t].op = "idle"
At(t, pc) == ~crashed /\ th[t].pc = pc
Sends == {"SendSMS", "SendVoiceCall"}

\* A call that returns at once: the caller holds the returned values.
Returned(t, call, r) ==
  /\ th' = [th EXCEPT ![t] = [call EXCEPT !.pc = "returned"]]
  /\ ret' = [ret EXCEPT ![t] = r]

\* ------------------------------------------------- retry.Do, step by step
\* A caller calls retry.Do(ctx, cfg, fn) directly.
CallDo(t, cfg) ==
  /\ Idle(t)
  /\ LET e == DoEnter(cfg)
     IN  /\ th' = [th EXCEPT ![t] = [NoCall EXCEPT !.op = "Do", !.pc = e.pc]]
         /\ frame' = [frame EXCEPT ![t] = e.f]
  /\ hist' = [hist EXCEPT ![t] = NoHist]
  /\ ret' = [ret EXCEPT ![t] = NoRet]
  /\ UNCHANGED <<render, config, registry, ctx>>

\* err = fn() begins.  In a send the closure reads m.activeProvider now.
FnBegin(t) ==
  /\ At(t, "attempt")
  /\ LET callee == IF th[t].op = "Do" THEN "fn" ELSE activeProvider
     IN  /\ th' = [th EXCEPT ![t].pc = "in_fn", ![t].prov = callee]
         /\ hist' = [hist EXCEPT ![t].invoked = Append(@, callee)]
  /\ UNCHANGED <<render, config, registry, frame, ctx, ret>>

\* fn returns; the rest of the loop body up to time.NewTimer runs.
FnEnd(t) ==
  /\ At(t, "in_fn")
  /\ \E o \in (IF th[t].op = "Do" THEN OpOutcomes ELSE ProviderOutcomes(th[t].prov, th[t].op)) :
       LET r == DoAfterFn(frame[t], o.err)
           kind == IF o.err = NoErr THEN "ok"
                   ELSE IF Classify(frame[t].cfg, o.err) THEN "retriable"
                   ELSE "fatal"
       IN  /\ th' = [th EXCEPT ![t].pc = r.pc, ![t].resp = o.resp]
           /\ frame' = [frame EXCEPT ![t] = r.f]
           /\ hist' = [hist EXCEPT ![t].kinds = Append(@, kind)]
  /\ UNCHANGED <<render, config, registry, ctx, ret>>

\* The select statement is entered: a case that is ready is taken (any of
\* them when both are), otherwise the goroutine blocks on both channels.
Select(t) ==
  /\ At(t, "timer")
  /\ LET ready == (IF ctx[t] # "none" THEN {"ctx"} ELSE {})
                  \cup (IF frame[t].timerFired THEN {"timer"} ELSE {})
     IN  IF ready = {}
         THEN /\ th' = [th EXCEPT ![t].pc = "blocked"]
              /\ UNCHANGED frame
         ELSE \E c \in ready :
                LET r == IF c = "ctx" THEN DoAfterCtxDone(frame[t], ctx[t])
                         ELSE DoAfterTimer(frame[t])
                IN  /\ th' = [th EXCEPT ![t].pc = r.pc]
                    /\ frame' = [frame EXCEPT ![t] = r.f]
  /\ UNCHANGED <<render, config, registry, ctx, ret, hist>>

\* The timer expires: a goroutine blocked in the select takes the timer
\* case; before the select is entered the value waits in timer.C.
TimerFire(t) ==
  /\ ~crashed
  /\ th[t].pc \in {"timer", "blocked"}
  /\ ~frame[t].timerFired
  /\ LET f == [frame[t] EXCEPT !.timerFired = TRUE]
         r == IF th[t].pc = "blocked" THEN DoAfterTimer(f)
              ELSE [pc |-> "timer", f |-> f]
     IN  /\ th' = [th EXCEPT ![t].pc = r.pc]
         /\ frame' = [frame EXCEPT ![t] = r.f]
  /\ UNCHANGED <<render, config, registry, ctx, ret, hist>>

\* The caller's context is cancelled or its deadline expires while the
\* call runs: a goroutine blocked in the select takes the ctx.Done() case.
Cancel(t, kind) ==
  /\ ~crashed
  /\ th[t].pc \in {"attempt", "in_fn", "timer", "blocked"}
  /\ ctx[t] = "none"
  /\ ctx' = [ctx EXCEPT ![t] = kind]
  /\ hist' = [hist EXCEPT ![t].cancelPc = th[t].pc,
                          ![t].cancelCalls = Len(hist[t].invoked)]
  /\ LET r == IF th[t].pc = "blocked" THEN DoAfterCtxDone(frame[t], kind)
              ELSE [pc |-> th[t].pc, f |-> frame[t]]
     IN  /\ th' = [th EXCEPT ![t].pc = r.pc]
         /\ frame' = [frame EXCEPT ![t] = r.f]
  /\ UNCHANGED <<render, config, registry, ret>>

\* retry.Do returns to its direct caller.
DoReturn(t) ==
  /\ At(t, "done")
  /\ th[t].op = "Do"
  /\ th' = [th EXCEPT ![t].pc = "returned"]
  /\ ret' = [ret EXCEPT ![t] = [NoRet EXCEPT !.err = frame[t].result]]
  /\ UNCHANGED <<render, config, registry, frame, ctx, hist>>

\* The caller is done with the returned values and may call again.
Return(t) ==
  /\ At(t, "returned")
  /\ th' = [th EXCEPT ![t] = NoCall]
  /\ frame' = [frame EXCEPT ![t] = NoFrame]
  /\ ctx' = [ctx EXCEPT ![t] = "none"]
  /\ ret' = [ret EXCEPT ![t] = NoRet]
  /\ hist' = [hist EXCEPT ![t] = NoHist]
  /\ UNCHANGED <<render, config, registry>>

\* ------------------------------------------------------------- Module
\* A read of the map while another caller is inside its assignment is a
\* data race: the runtime may stop the process ("concurrent map read and
\* map write"), otherwise the read sees the map as committed so far.
RaceOutcomes(t) == IF writers \ {t} # {} THEN {"proceed", "fatal"} ELSE {"proceed"}

Crash ==
  /\ crashed' = TRUE
  /\ UNCHANGED <<render, config, providers, activeProvider, writers, succeeded,
                 th, frame, ctx, ret, hist>>

\* fmt.Errorf("provider with name '%s' is already registered", ...) and
\* fmt.Errorf("provider '%s' not found", ...); the name is left out
ErrAlreadyRegistered == PlainError(sAlreadyRegistered)
ErrNotFound == PlainError(sNotFound)

\* An exists check that compares the instance instead of the name.
AddExists_ByInstance(p) == providers[Name(p)] = p

\* _, exists := m.providers[providerName]
AddExists(p) == providers[Name(p)] # Nil

\* Activation only of the first provider / only of the default provider.
ShouldActivate_Always(p) == TRUE
ShouldActivate_FirstOnly(p) == activeProvider = Nil
ShouldActivate_DefaultOnly(p) == config.DefaultProvider = Name(p)

\* m.activeProvider == nil || m.config.DefaultProvider == providerName
ShouldActivate(p) ==
  activeProvider = Nil \/ config.DefaultProvider = Name(p)

\* AddProvider: providerName := provider.Name() and the exists check.
AddBegin(t, p) ==
  /\ Idle(t)
  /\ \E race \in RaceOutcomes(t) :
       IF race = "fatal" THEN Crash
       ELSE /\ IF AddExists(p)
               THEN Returned(t, [NoCall EXCEPT !.op = "AddProvider", !.prov = p],
                             [NoRet EXCEPT !.err = ErrAlreadyRegistered])
               ELSE /\ th' = [th EXCEPT ![t] = [NoCall EXCEPT !.op = "AddProvider",
                                                 !.pc = "add_write", !.prov = p]]
                    /\ ret' = [ret EXCEPT ![t] = NoRet]
            /\ UNCHANGED <<render, config, registry, frame, ctx, hist>>

\* AddProvider: the assignment m.providers[providerName] = provider begins.
AddWriteBegin(t) ==
  /\ At(t, "add_write")
  /\ \E race \in RaceOutcomes(t) :
       IF race = "fatal" THEN Crash
       ELSE /\ writers' = writers \cup {t}
            /\ th' = [th EXCEPT ![t].pc = "add_writing"]
            /\ UNCHANGED <<render, config, providers, activeProvider, crashed, succeeded,
                           frame, ctx, ret, hist>>

\* AddProvider: the assignment to the map takes effect.
AddWriteEnd(t) ==
  /\ At(t, "add_writing")
  /\ providers' = [providers EXCEPT ![Name(th[t].prov)] = th[t].prov]
  /\ writers' = writers \ {t}
  /\ th' = [th EXCEPT ![t].pc = "add_active"]
  /\ UNCHANGED <<render, config, activeProvider, crashed, succeeded, frame, ctx, ret, hist>>

\* AddProvider: if m.activeProvider == nil || DefaultProvider == providerName
AddCheckActive(t) ==
  /\ At(t, "add_active")
  /\ IF ShouldActivate(th[t].prov)
     THEN /\ th' = [th EXCEPT ![t].pc = "add_store"]
          /\ UNCHANGED <<ret, succeeded>>
     ELSE /\ th' = [th EXCEPT ![t].pc = "returned"]
          /\ ret' = [ret EXCEPT ![t] = NoRet]
          /\ succeeded' = succeeded \cup {th[t].prov}
  /\ UNCHANGED <<render, config, providers, activeProvider, writers, crashed, frame, ctx, hist>>

\* AddProvider: m.activeProvider = provider; return nil
AddStoreActive(t) ==
  /\ At(t, "add_store")
  /\ activeProvider' = th[t].prov
  /\ th' = [th EXCEPT ![t].pc = "returned"]
  /\ ret' = [ret EXCEPT ![t] = NoRet]
  /\ succeeded' = succeeded \cup {th[t].prov}
  /\ UNCHANGED <<render, config, providers, writers, crashed, frame, ctx, hist>>
\* SwitchProvider that drops the active provider when the name is unknown.
SwitchBegin_ClearOnMiss(t, name) ==
  /\ Idle(t)
  /\ \E race \in RaceOutcomes(t) :
       IF race = "fatal" THEN Crash
       ELSE /\ IF providers[name] = Nil
               THEN /\ Returned(t, [NoCall EXCEPT !.op = "SwitchProvider", !.name = name],
                                [NoRet EXCEPT !.err = ErrNotFound])
                    /\ activeProvider' = Nil
               ELSE /\ th' = [th EXCEPT ![t] = [NoCall EXCEPT !.op = "SwitchProvider",
                                                 !.pc = "switch_store",
                                                 !.prov = providers[name], !.name = name]]
                    /\ ret' = [ret EXCEPT ![t] = NoRet]
                    /\ UNCHANGED activeProvider
            /\ UNCHANGED <<render, config, providers, writers, crashed, succeeded,
                           frame, ctx, hist>>


\* SwitchProvider: provider, exists := m.providers[name]
SwitchBegin(t, name) ==
  /\ Idle(t)
  /\ \E race \in RaceOutcomes(t) :
       IF race = "fatal" THEN Crash
       ELSE /\ IF providers[name] = Nil
               THEN Returned(t, [NoCall EXCEPT !.op = "SwitchProvider", !.name = name],
                             [NoRet EXCEPT !.err = ErrNotFound])
               ELSE /\ th' = [th EXCEPT ![t] = [NoCall EXCEPT !.op = "SwitchProvider",
                                                 !.pc = "switch_store",
                                                 !.prov = providers[name], !.name = name]]
                    /\ ret' = [ret EXCEPT ![t] = NoRet]
            /\ UNCHANGED <<render, config, registry, frame, ctx, hist>>

\* SwitchProvider that returns nil without the assignment.
SwitchStore_NoStore(t) ==
  /\ At(t, "switch_store")
  /\ th' = [th EXCEPT ![t].pc = "returned"]
  /\ ret' = [ret EXCEPT ![t] = NoRet]
  /\ UNCHANGED <<render, config, registry, frame, ctx, hist>>

\* SwitchProvider: m.activeProvider = provider; return nil
SwitchStore(t) ==
  /\ At(t, "switch_store")
  /\ activeProvider' = th[t].prov
  /\ th' = [th EXCEPT ![t].pc = "returned"]
  /\ ret' = [ret EXCEPT ![t] = NoRet]
  /\ UNCHANGED <<render, config, providers, writers, crashed, succeeded, frame, ctx, hist>>

\* GetProvider
GetProvider(t, name) ==
  /\ Idle(t)
  /\ \E race \in RaceOutcomes(t) :
       IF race = "fatal" THEN Crash
       ELSE /\ IF providers[name] = Nil
               THEN Returned(t, [NoCall EXCEPT !.op = "GetProvider", !.name = name],
                             [NoRet EXCEPT !.err = ErrNotFound])
               ELSE Returned(t, [NoCall EXCEPT !.op = "GetProvider", !.name = name],
                             [NoRet EXCEPT !.prov = providers[name]])
            /\ UNCHANGED <<render, config, registry, frame, ctx, hist>>

\* GetActiveProvider
GetActiveProvider(t) ==
  /\ Idle(t)
  /\ IF activeProvider = Nil
     THEN Returned(t, [NoCall EXCEPT !.op = "GetActiveProvider"],
                   [NoRet EXCEPT !.err = ErrNoActiveProvider])
     ELSE Returned(t, [NoCall EXCEPT !.op = "GetActiveProvider"],
                   [NoRet EXCEPT !.prov = activeProvider])
  /\ UNCHANGED <<render, config, registry, frame, ctx, hist>>

\* A retry.Config that counts retry_attempts as retries after the first try.
RetryConfig_ExtraAttempt ==
  [MaxAttempts |-> config.RetryAttempts + 1, InitialDelay |-> config.RetryDelay,
   MaxDelay |-> SendMaxDelay, Multiplier |-> SendMultiplier,
   RetriableErrors |-> "nil"]

\* The retry.Config literal SendSMS and SendVoiceCall build.
RetryConfig ==
  [MaxAttempts |-> config.RetryAttempts, InitialDelay |-> config.RetryDelay,
   MaxDelay |-> SendMaxDelay, Multiplier |-> SendMultiplier,
   RetriableErrors |-> "nil"]

\* The two checks in the other order.
SendPrecheck_ValidateFirst(req) ==
  IF Validate(req) # NoErr THEN Validate(req)
  ELSE IF activeProvider = Nil THEN ErrNoActiveProvider ELSE NoErr

\* The checks SendSMS and SendVoiceCall make before retry.Do: the error
\* they return at once, or nil.
SendPrecheck(req) ==
  IF activeProvider = Nil THEN ErrNoActiveProvider ELSE Validate(req)

\* SendSMS / SendVoiceCall up to the first pass of retry.Do's loop: the
\* active-provider check, req.Validate(), the retry configuration.
SendBegin(t, op, req) ==
  /\ Idle(t)
  /\ hist' = [hist EXCEPT ![t] = [NoHist EXCEPT !.active0 = activeProvider]]
  /\ IF SendPrecheck(req) # NoErr
     THEN /\ Returned(t, [NoCall EXCEPT !.op = op, !.req = req],
                      [NoRet EXCEPT !.err = SendPrecheck(req)])
          /\ UNCHANGED frame
     ELSE LET e == DoEnter(RetryConfig)
          IN  /\ th' = [th EXCEPT ![t] = [NoCall EXCEPT !.op = op, !.pc = e.pc,
                                                        !.req = req]]
              /\ frame' = [frame EXCEPT ![t] = e.f]
              /\ ret' = [ret EXCEPT ![t] = NoRet]
  /\ UNCHANGED <<render, config, registry, ctx>>

\* A fill that overwrites whatever the provider set.
FillProvider_Always(resp) == [resp EXCEPT !.Provider = Name(activeProvider)]

\* if response.Provider == "" { response.Provider = m.activeProvider.Name() }
FillProvider(resp) ==
  IF resp.Provider = ""
  THEN [resp EXCEPT !.Provider = Name(activeProvider)]
  ELSE resp

\* A send that hands back the response variable also when retry.Do failed.
SendFinish_KeepResponse(t) ==
  /\ At(t, "done")
  /\ th[t].op \in Sends
  /\ th' = [th EXCEPT ![t].pc = "returned"]
  /\ ret' = [ret EXCEPT ![t] =
       IF frame[t].result # NoErr
       THEN [NoRet EXCEPT !.err =
               WrapSendError(IF th[t].op = "SendSMS" THEN sSendSMSFailed
                             ELSE sSendVoiceFailed,
                             config.RetryAttempts, frame[t].result),
                          !.resp = th[t].resp]
       ELSE [NoRet EXCEPT !.resp = FillProvider(th[t].resp)]]
  /\ UNCHANGED <<render, config, registry, frame, ctx, hist>>

\* SendSMS / SendVoiceCall after retry.Do returned: wrap the error, or
\* fill in the Provider field from m.activeProvider and return.
SendFinish(t) ==
  /\ At(t, "done")
  /\ th[t].op \in Sends
  /\ th' = [th EXCEPT ![t].pc = "returned"]
  /\ ret' = [ret EXCEPT ![t] =
       IF frame[t].result # NoErr
       THEN [NoRet EXCEPT !.err =
               WrapSendError(IF th[t].op = "SendSMS" THEN sSendSMSFailed
                             ELSE sSendVoiceFailed,
                             config.RetryAttempts, frame[t].result)]
       ELSE [NoRet EXCEPT !.resp = FillProvider(th[t].resp)]]
  /\ UNCHANGED <<render, config, registry, frame, ctx, hist>>

\* ------------------------------------------------------- plain helpers
\* ok := model.ValidatePhoneNumber(s) called by the caller itself.
CheckPhone(t, s) ==
  /\ Idle(t)
  /\ Returned(t, [NoCall EXCEPT !.op = "ValidatePhoneNumber", !.arg = s],
              [NoRet EXCEPT !.ok = ValidatePhoneNumber(s)])
  /\ UNCHANGED <<render, config, registry, frame, ctx, hist>>

\* IsRetriableHTTPCode: membership in RetryableHTTPCodes()
IsRetriableHTTPCode(statusCode) == statusCode \in {500, 502, 503, 504, 429}

\* A caller classifies a status code and keeps NewHTTPError(c, msg) at hand.
CheckHTTPCode(t, c, msg) ==
  /\ Idle(t)
  /\ Returned(t, [NoCall EXCEPT !.op = "IsRetriableHTTPCode"],
              [NoRet EXCEPT !.err = HTTPError(c, msg), !.ok = IsRetriableHTTPCode(c)])
  /\ UNCHANGED <<render, config, registry, frame, ctx, hist>>

\* extractOTPFromMessage: the first window of six digits, else the first
\* window of 4, of 5, of 7, of 8 digits in that order, else the message.
ExtractOTPFromMessage(message) ==
  LET Windows(length) ==
        {i \in 1..(Len(message) - length + 1) :
           AllDigits(SubSeq(message, i, i + length - 1))}
      First(length) ==
        LET i == CHOOSE i \in Windows(length) : \A j \in Windows(length) : i <= j
        IN  SubSeq(message, i, i + length - 1)
  IN  IF Windows(6) # {} THEN First(6)
      ELSE IF Windows(4) # {} THEN First(4)
      ELSE IF Windows(5) # {} THEN First(5)
      ELSE IF Windows(7) # {} THEN First(7)
      ELSE IF Windows(8) # {} THEN First(8)
      ELSE message

\* The eSMS adapter extracts the code to speak from a voice message.
ExtractOTP(t, message) ==
  /\ Idle(t)
  /\ Returned(t, [NoCall EXCEPT !.op = "extractOTPFromMessage", !.arg = message],
              [NoRet EXCEPT !.str = ExtractOTPFromMessage(message)])
  /\ UNCHANGED <<render, config, registry, frame, ctx, hist>>

\* ------------------------------------------------------ Config.Validate
\* A loaded configuration: Providers is the providers map (nil, or its
\* keys), durations are milliseconds.  The checks run in the order of the
\* code; an error is named by the sentinel that errors.Is finds in it (the
\* error of the third check is built by fmt.Errorf and has none).
CandidateConfigs ==
  [DefaultProvider : {"", "n1"},
   Providers : {[nil |-> TRUE, keys |-> {}], [nil |-> FALSE, keys |-> {}],
                [nil |-> FALSE, keys |-> {"n1"}], [nil |-> FALSE, keys |-> {"n2"}]},
   HTTPTimeout : {-1, 0, 10000},
   RetryAttempts : {-1, 0, 1},
   RetryDelay : {0, 500},
   SMSTemplate : {<<>>, DefaultSMSTemplate},
   VoiceTemplate : {<<>>, DefaultVoiceTemplate}]

\* A Validate that wants a positive retry delay whatever the attempts are.
ConfigValidate_DelayAlways(c) ==
  LET Sentinel(id) == [ids |-> {"error", id}, status |-> 0, field |-> "", text |-> <<>>]
  IN  IF c.DefaultProvider = "" THEN Sentinel("ErrMissingDefaultProvider")
      ELSE IF c.Providers.nil \/ Cardinality(c.Providers.keys) = 0
      THEN Sentinel("ErrNoProvidersConfigured")
      ELSE IF c.DefaultProvider \notin c.Providers.keys THEN Sentinel("notFound")
      ELSE IF c.HTTPTimeout <= 0 THEN Sentinel("ErrInvalidHTTPTimeout")
      ELSE IF c.RetryAttempts < 0 THEN Sentinel("ErrInvalidRetryAttempts")
      ELSE IF c.RetryDelay <= 0 THEN Sentinel("ErrInvalidRetryDelay")
      ELSE IF c.SMSTemplate = <<>> THEN Sentinel("ErrMissingSMSTemplate")
      ELSE IF c.VoiceTemplate = <<>> THEN Sentinel("ErrMissingVoiceTemplate")
      ELSE NoErr

\* (*Config).Validate
ConfigValidate(c) ==
  LET Sentinel(id) == [ids |-> {"error", id}, status |-> 0, field |-> "", text |-> <<>>]
  IN  IF c.DefaultProvider = "" THEN Sentinel("ErrMissingDefaultProvider")
      ELSE IF c.Providers.nil \/ Cardinality(c.Providers.keys) = 0
      THEN Sentinel("ErrNoProvidersConfigured")
      ELSE IF c.DefaultProvider \notin c.Providers.keys THEN Sentinel("notFound")
      ELSE IF c.HTTPTimeout <= 0 THEN Sentinel("ErrInvalidHTTPTimeout")
      ELSE IF c.RetryAttempts < 0 THEN Sentinel("ErrInvalidRetryAttempts")
      ELSE IF c.RetryAttempts > 0 /\ c.RetryDelay <= 0 THEN Sentinel("ErrInvalidRetryDelay")
      ELSE IF c.SMSTemplate = <<>> THEN Sentinel("ErrMissingSMSTemplate")
      ELSE IF c.VoiceTemplate = <<>> THEN Sentinel("ErrMissingVoiceTemplate")
      ELSE NoErr

\* err := cfg.Validate() on the configuration that was loaded.
ValidateConfig(t) ==
  /\ Idle(t)
  /\ Returned(t, [NoCall EXCEPT !.op = "Validate"],
              [NoRet EXCEPT !.err = ConfigValidate(config)])
  /\ UNCHANGED <<render, config, registry, frame, ctx, hist>>

\* ------------------------------------------------------- Message.Render
\* A data bag is a Go map[string]interface{}: nil, or a map from keys to
\* values.  A value is a string, an int or a bool; Sprint is
\* fmt.Sprintf("%v", value).
sBy == <<"b","y">>  \* "by"
sName == <<"n","a","m","e">>  \* "name"
sV == <<"v">>  \* "v"
sTestApp == <<"T","e","s","t","A","p","p">>  \* "TestApp"
sOtherSender == <<"O","t","h","e","r","S","e","n","d","e","r">>  \* "OtherSender"
sJohn == <<"J","o","h","n">>  \* "John"
sAcme == <<"A","c","m","e">>  \* "Acme"
sTrue == <<"t","r","u","e">>  \* "true"
sFalse == <<"f","a","l","s","e">>  \* "false"
tHello == <<"H","i"," ","{","n","a","m","e","}","!">>  \* "Hi {name}!"
tIdentity == <<"{","f","r","o","m","}",">","{","t","o","}",":","{","b","y","}">>  \* "{from}>{to}:{by}"
tMissing == <<"{","n","a","m","e","}",","," ","{","c","o","d","e","}">>  \* "{name}, {code}"
tNested == <<"{","{","n","a","m","e","}","}">>  \* "{{name}}"
tEmptyKey == <<"{","}","{","n","a","m","e","}">>  \* "{}{name}"
tUnclosed == <<"a","{","n","a","m","e">>  \* "a{name"
tTwice == <<"{","n","a","m","e","}","{","n","a","m","e","}">>  \* "{name}{name}"
tValue == <<"{","v","}","/","{","n","a","m","e","}">>  \* "{v}/{name}"
tPlaceholder == <<"{","n","a","m","e","}">>  \* "{name}"

StringValue(s) == [tag |-> "string", s |-> s, n |-> 0, b |-> FALSE]
IntValue(n) == [tag |-> "int", s |-> <<>>, n |-> n, b |-> FALSE]
BoolValue(b) == [tag |-> "bool", s |-> <<>>, n |-> 0, b |-> b]

Sprint(v) ==
  CASE v.tag = "string" -> v.s
    [] v.tag = "int" -> IF v.n < 0 THEN <<"-">> \o Itoa(0 - v.n) ELSE Itoa(v.n)
    [] v.tag = "bool" -> IF v.b THEN sTrue ELSE sFalse

NilMap == [nil |-> TRUE, m |-> <<>>]
MakeMap(m) == [nil |-> FALSE, m |-> m]
Exists(data, key) == ~data.nil /\ key \in DOMAIN data.m
\* data[key] = value
Store(data, key, value) ==
  MakeMap([k \in DOMAIN data.m \cup {key} |->
             IF k = key THEN value ELSE data.m[k]])

\* if data == nil { data = make(...) }, then from, to and by are stored
\* unless the key exists.
AddMessageFields(data, m) ==
  LET d0 == IF data.nil THEN MakeMap(<<>>) ELSE data
      d1 == IF ~Exists(d0, sFrom) THEN Store(d0, sFrom, StringValue(m.From)) ELSE d0
      d2 == IF ~Exists(d1, sTo) THEN Store(d1, sTo, StringValue(m.To)) ELSE d1
  IN  IF ~Exists(d2, sBy) THEN Store(d2, sBy, StringValue(m.By)) ELSE d2

IsBrace(c) == c \in {"{", "}"}

\* The end of the match of {([^{}]+)} that starts at i, or 0 when none
\* starts there: the first brace after i has to be a "}" with at least one
\* character in between.
MatchEnd(template, i) ==
  IF template[i] # "{" THEN 0
  ELSE LET closers == {j \in (i + 1)..Len(template) : IsBrace(template[j])}
       IN  IF closers = {} THEN 0
           ELSE LET j == CHOOSE c \in closers : \A d \in closers : c <= d
                IN  IF template[j] = "}" /\ j > i + 1 THEN j ELSE 0

\* The function handed to ReplaceAllStringFunc.
Replacement(placeholder, data) ==
  LET key == SubSeq(placeholder, 2, Len(placeholder) - 1)
  IN  IF Exists(data, key) THEN Sprint(data.m[key]) ELSE placeholder

\* re.ReplaceAllStringFunc from position i on: leftmost matches, not
\* overlapping, the replacement is not scanned again.
RECURSIVE ReplaceAll(_, _, _)
ReplaceAll(template, i, data) ==
  IF i > Len(template) THEN <<>>
  ELSE LET j == MatchEnd(template, i)
       IN  IF j = 0 THEN <<template[i]>> \o ReplaceAll(template, i + 1, data)
           ELSE Replacement(SubSeq(template, i, j), data)
                \o ReplaceAll(template, j + 1, data)

\* A Render that uses up the caller's map.
Render_Drain(m, template, data) ==
  IF template = <<>> THEN [out |-> <<>>, data |-> data]
  ELSE [out |-> ReplaceAll(template, 1, AddMessageFields(data, m)),
        data |-> IF data.nil THEN data ELSE MakeMap(<<>>)]

\* Message.Render: the returned string and the caller's map after the call
\* (a nil map stays nil for the caller, a non-nil map is written in place).
Render(m, template, data) ==
  IF template = <<>> THEN [out |-> <<>>, data |-> data]
  ELSE LET d == AddMessageFields(data, m)
       IN  [out |-> ReplaceAll(template, 1, d),
            data |-> IF data.nil THEN data ELSE d]

\* The template a provider renders the body from (twilio and speedsms
\* adapters alike): req.Template, or "{message}" when that is empty.
BodyTemplate(reqTemplate) ==
  IF reqTemplate = <<>> THEN <<"{","m","e","s","s","a","g","e","}">>
  ELSE reqTemplate

Messages ==
  { [From |-> sSender, To |-> sGoodNumber, By |-> sTestApp],
    [From |-> sAcme, To |-> sShortNumber, By |-> <<>>] }

Templates ==
  { <<>>, tHello, tIdentity, tMissing, tNested, tEmptyKey, tUnclosed, tTwice,
    tValue }

DataBags ==
  { NilMap,
    MakeMap(<<>>),
    MakeMap((sName :> StringValue(sJohn))),
    MakeMap((sName :> IntValue(123))),
    MakeMap((sName :> BoolValue(TRUE))),
    MakeMap((sName :> StringValue(sJohn)) @@ (sV :> StringValue(tPlaceholder))),
    MakeMap((sFrom :> StringValue(sOtherSender)) @@ (sTo :> StringValue(sFormattedNumber))
            @@ (sBy :> StringValue(sAcme))),
    MakeMap((sName :> StringValue(sJohn)) @@ (sFrom :> StringValue(sOtherSender))) }

MaxRenders == 2

\* result := m.Render(template, data), with the map the caller holds.
RenderCall(m, template) ==
  /\ render.calls < MaxRenders
  /\ LET r == Render(m, template, render.data)
     IN  render' = [render EXCEPT !.calls = @ + 1, !.before = render.data,
                                  !.data = r.data, !.m = m,
                                  !.template = template, !.out = r.out,
                                  !.op = "Render", !.reqTemplate = template,
                                  !.prev = [m |-> render.m,
                                            template |-> render.template,
                                            out |-> render.out]]
  /\ UNCHANGED <<config, registry, th, frame, ctx, ret, hist>>

\* ------------------------------------------------------ specifications
\* Direct calls of retry.Do by one caller.
InitDo ==
  /\ Init
  /\ config = [DefaultProvider |-> "n1", RetryAttempts |-> MaxAttemptsBound,
               RetryDelay |-> 500, SMSTemplate |-> DefaultSMSTemplate,
               VoiceTemplate |-> DefaultVoiceTemplate]

NextDo ==
  \E t \in {"t1"} :
    \/ \E cfg \in DoConfigs : CallDo(t, cfg)
    \/ FnBegin(t)
    \/ FnEnd(t)
    \/ Select(t)
    \/ TimerFire(t)
    \/ \E kind \in {"Canceled", "DeadlineExceeded"} : Cancel(t, kind)
    \/ DoReturn(t)
    \/ Return(t)

SpecDo == InitDo /\ [][NextDo]_vars

\* The direct calls of retry.Do with one backoff schedule (100 ms doubled,
\* capped at 150 ms): every MaxAttempts and every classifier.
NextDoFair ==
  \E t \in {"t1"} :
    \/ \E cfg \in {c \in DoConfigs :
                     c.InitialDelay = 100 /\ c.MaxDelay = 150 /\ c.Multiplier = 20} :
         CallDo(t, cfg)
    \/ FnBegin(t)
    \/ FnEnd(t)
    \/ Select(t)
    \/ TimerFire(t)
    \/ \E kind \in {"Canceled", "DeadlineExceeded"} : Cancel(t, kind)
    \/ DoReturn(t)
    \/ Return(t)

\* retry.Do under a scheduler that keeps the calling goroutine running, an
\* operation that returns, and a runtime timer that fires: every step of the
\* call that stays enabled is eventually taken.  Cancellation and the
\* caller's next call are left to the environment.
SpecDoFair ==
  /\ InitDo
  /\ [][NextDoFair]_vars
  /\ WF_vars(FnBegin("t1"))
  /\ WF_vars(FnEnd("t1"))
  /\ WF_vars(Select("t1"))
  /\ WF_vars(TimerFire("t1"))
  /\ WF_vars(DoReturn("t1"))

\* The calls of one caller that change the registry.
RegistryStep(t) ==
  \/ \E p \in Instances : AddBegin(t, p)
  \/ AddWriteBegin(t)
  \/ AddWriteEnd(t)
  \/ AddCheckActive(t)
  \/ AddStoreActive(t)
  \/ \E name \in Names : SwitchBegin(t, name)
  \/ SwitchStore(t)

\* The calls of one caller that read the registry.
LookupStep(t) ==
  \/ \E name \in Names : GetProvider(t, name)
  \/ GetActiveProvider(t)

\* The sends of one caller, with the requests it sends.
SendStep(t, reqs) ==
  \/ \E op \in Sends, req \in reqs : SendBegin(t, op, req)
  \/ FnBegin(t)
  \/ FnEnd(t)
  \/ Select(t)
  \/ TimerFire(t)
  \/ SendFinish(t)

\* One caller: every call returns before the next one starts.
Next ==
  \/ RegistryStep("t1")
  \/ LookupStep("t1")
  \/ SendStep("t1", Requests)
  \/ \E kind \in {"Canceled", "DeadlineExceeded"} : Cancel("t1", kind)
  \/ Return("t1")

Spec == Init /\ [][Next]_vars

\* Two callers on one Module, their calls interleaved step by step: both
\* register and switch, t1 also reads and sends.
InitConc ==
  /\ Init
  /\ config.RetryDelay = 500
  /\ config.RetryAttempts = ConcAttempts
  /\ config.DefaultProvider \in {"n1", "n3"}

NextConc ==
  \/ \E t \in Threads : RegistryStep(t) \/ Return(t)
  \/ LookupStep("t1")
  \/ SendStep("t1", {[To |-> sGoodNumber, From |-> sSender]})

SpecConc == InitConc /\ [][NextConc]_vars

\* Provider.SendSMS / SendVoiceCall up to the rendered body:
\* messageBody := req.Message.Render(template, req.Data).
ProviderBody(op, m, reqTemplate) ==
  /\ render.calls < MaxRenders
  /\ LET template == BodyTemplate(reqTemplate)
         r == Render(m, template, render.data)
     IN  render' = [render EXCEPT !.calls = @ + 1, !.before = render.data,
                                  !.data = r.data, !.m = m,
                                  !.template = template, !.out = r.out,
                                  !.op = op, !.reqTemplate = reqTemplate,
                                  !.prev = [m |-> render.m,
                                            template |-> render.template,
                                            out |-> render.out]]
  /\ UNCHANGED <<config, registry, th, frame, ctx, ret, hist>>

\* Render calls of one caller that keeps its data bag between the calls.
InitRender ==
  /\ config = [DefaultProvider |-> "n1", RetryAttempts |-> 1, RetryDelay |-> 500,
               SMSTemplate |-> DefaultSMSTemplate,
               VoiceTemplate |-> DefaultVoiceTemplate]
  /\ providers = [n \in Names |-> Nil]
  /\ activeProvider = Nil
  /\ writers = {}
  /\ crashed = FALSE
  /\ succeeded = {}
  /\ th = [t \in Threads |-> NoCall]
  /\ frame = [t \in Threads |-> NoFrame]
  /\ ctx = [t \in Threads |-> "none"]
  /\ ret = [t \in Threads |-> NoRet]
  /\ hist = [t \in Threads |-> NoHist]
  /\ \E data \in DataBags :
       render = [NoRender EXCEPT !.orig = data, !.before = data, !.data = data]

NextRender ==
  \E m \in Messages :
    \/ \E template \in Templates : RenderCall(m, template)
    \/ \E op \in Sends, reqTemplate \in {<<>>, tHello} :
         ProviderBody(op, m, reqTemplate)

SpecRender == InitRender /\ [][NextRender]_vars

\* Validation of a configuration as it was loaded, valid or not.
InitConfig ==
  /\ config \in CandidateConfigs
  /\ providers = [n \in Names |-> Nil]
  /\ activeProvider = Nil
  /\ writers = {}
  /\ crashed = FALSE
  /\ succeeded = {}
  /\ th = [t \in Threads |-> NoCall]
  /\ frame = [t \in Threads |-> NoFrame]
  /\ ctx = [t \in Threads |-> "none"]
  /\ ret = [t \in Threads |-> NoRet]
  /\ hist = [t \in Threads |-> NoHist]
  /\ render = NoRender

NextConfig == ValidateConfig("t1")

SpecConfig == InitConfig /\ [][NextConfig]_vars

\* Calls of the plain helper functions by one caller, on phone numbers
\* made of a prefix, a run of digits (bare or formatted) and a suffix.
NextHelpers ==
  \E t \in {"t1"} :
    \/ \E s \in { p \o b \o x :
                p \in {<<>>, <<"+">>, <<"+", "+">>, <<" ">>, <<"(", "+">>},
                b \in {SubSeq(sGoodNumber, 2, n + 1) : n \in {0, 6, 7, 8, 10}}
                      \cup {Tail(sFormattedNumber),
                            <<"1","2","3","a","5","6","7","8","9">>},
                x \in {<<>>, <<"a">>, <<"-">>, <<"5">>, <<"+">>, <<")", " ">>} } :
         CheckPhone(t, s)
    \/ \E c \in {200, 400, 404, 429, 499, 500, 501, 502, 503, 504, 505, 599},
           msg \in {sBadRequest, <<"f","a","i","l","e","d">>} :
         CheckHTTPCode(t, c, msg)
    \/ \E message \in
           { p \o SubSeq(<<"9","8","7","6","5","4","3","2","1">>, 1, n) \o x :
               p \in {<<>>, <<"C","o","d","e",":"," ">>, <<"1","2"," ">>},
               n \in {0, 1, 3, 4, 5, 6, 7, 8, 9},
               x \in {<<>>, <<" ","i","s"," ","i","t">>, <<" ","4","2","4","2">>} } :
         ExtractOTP(t, message)

SpecHelpers == InitDo /\ [][NextHelpers]_vars

\* ------------------------------------------------------------- claims
AllRetriable(t) ==
  \A i \in 1..Len(hist[t].kinds) : hist[t].kinds[i] = "retriable"
Finished(t) == th[t].pc \in {"done", "returned"}
Empty == \A n \in Names : providers[n] = Nil
GoodReq == [To |-> sGoodNumber, From |-> sSender]

\* C1: retry termination.  A direct retry.Do call with MaxAttempts = N >= 1
\* whose operation failed with a retriable error on every invocation, and
\* whose context was never cancelled, has invoked the operation exactly N
\* times when it returns, and the returned error carries
\* ErrMaxAttemptsReached.
C1_RetryTermination ==
  \A t \in Threads :
    ( /\ th[t].op = "Do" /\ th[t].pc = "returned"
      /\ frame[t].cfg.MaxAttempts >= 1
      /\ ctx[t] = "none"
      /\ AllRetriable(t) )
    => /\ Len(hist[t].invoked) = frame[t].cfg.MaxAttempts
       /\ ErrorIs(ret[t].err, "ErrMaxAttemptsReached")

C1_Witness ==
  /\ th["t1"].op = "Do" /\ th["t1"].pc = "returned"
  /\ frame["t1"].cfg.MaxAttempts = 3
  /\ ctx["t1"] = "none"
  /\ hist["t1"].kinds = <<"retriable", "retriable", "retriable">>
  /\ Len(hist["t1"].invoked) = 3
  /\ ErrorIs(ret["t1"].err, "ErrMaxAttemptsReached")

\* C2: cancellation precedence.  When the context's signal fires while
\* retry.Do is blocked in the wait between two attempts, Do is finished:
\* it invokes the operation no more, and it returns ctx.Err() (Canceled or
\* DeadlineExceeded), which does not carry ErrMaxAttemptsReached.
C2_CancellationPrecedence ==
  \A t \in Threads :
    (th[t].op = "Do" /\ hist[t].cancelPc = "blocked")
    => /\ Finished(t)
       /\ Len(hist[t].invoked) = hist[t].cancelCalls
       /\ frame[t].result = CtxErr(ctx[t])
       /\ ~ErrorIs(frame[t].result, "ErrMaxAttemptsReached")
       /\ th[t].pc = "returned" => ret[t].err = CtxErr(ctx[t])

C2_Witness ==
  /\ th["t1"].op = "Do" /\ th["t1"].pc = "returned"
  /\ hist["t1"].cancelPc = "blocked"
  /\ frame["t1"].cfg.MaxAttempts = 3
  /\ Len(hist["t1"].invoked) = 1
  /\ ret["t1"].err = DeadlineExceeded

\* C3: non-retriable short-circuit.  Once an invocation of the operation
\* fails with an error the policy's classifier calls non-retriable, Do is
\* finished with that invocation as its last; when it is the first
\* invocation the operation was invoked exactly once and no wait took
\* place, whatever MaxAttempts is.
C3_NonRetriableShortCircuit ==
  \A t \in Threads :
    th[t].op = "Do" =>
      \A i \in 1..Len(hist[t].kinds) :
        hist[t].kinds[i] = "fatal"
        => /\ Finished(t)
           /\ Len(hist[t].invoked) = i
           /\ Len(frame[t].waits) = i - 1

C3_Witness ==
  /\ th["t1"].op = "Do" /\ th["t1"].pc = "returned"
  /\ frame["t1"].cfg.MaxAttempts = 3
  /\ hist["t1"].kinds = <<"fatal">>
  /\ Len(hist["t1"].invoked) = 1
  /\ frame["t1"].waits = <<>>
  /\ ret["t1"].err = HTTPError(400, sBadRequest)

\* C4: success path.  Once an invocation of the operation succeeds, Do is
\* finished with that invocation as its last, no wait follows it and Do
\* returns nil; so failing twice retriably and then succeeding under
\* MaxAttempts = 3 is 3 invocations and no error.
C4_SuccessPath ==
  \A t \in Threads :
    th[t].op = "Do" =>
      \A i \in 1..Len(hist[t].kinds) :
        hist[t].kinds[i] = "ok"
        => /\ Finished(t)
           /\ Len(hist[t].invoked) = i
           /\ Len(frame[t].waits) = i - 1
           /\ frame[t].result = NoErr
           /\ th[t].pc = "returned" => ret[t].err = NoErr

C4_Witness ==
  /\ th["t1"].op = "Do" /\ th["t1"].pc = "returned"
  /\ frame["t1"].cfg.MaxAttempts = 3
  /\ hist["t1"].kinds = <<"retriable", "retriable", "ok">>
  /\ Len(hist["t1"].invoked) = 3
  /\ ret["t1"].err = NoErr

\* C5: no active backend.  On a Module with no registered provider a
\* SendSMS or SendVoiceCall call returns at once, for every request, the
\* no-active-provider error and the zero response, having invoked no
\* provider and not entered retry.Do; GetActiveProvider returns the same
\* error.
C5_NoActiveBackend ==
  \A t \in Threads :
    (Empty /\ th[t].op \in Sends \cup {"GetActiveProvider"})
    => /\ th[t].pc = "returned"
       /\ ret[t].err = ErrNoActiveProvider
       /\ ret[t].resp = NoResp
       /\ ret[t].prov = Nil
       /\ hist[t].invoked = <<>>
       /\ frame[t] = NoFrame

C5_Witness ==
  /\ Empty
  /\ th["t1"].op = "SendVoiceCall" /\ th["t1"].pc = "returned"
  /\ th["t1"].req = GoodReq
  /\ ret["t1"].err = ErrNoActiveProvider

\* C6: registry uniqueness.  An AddProvider call for a name that is already
\* registered returns an error and leaves the map and the active provider
\* as they were; the instances whose registration succeeded have distinct
\* names and each is the map's entry for its name.
C6_RegistryUniqueness ==
  /\ [](\A p, q \in succeeded : Name(p) = Name(q) => p = q)
  /\ [](\A t \in Threads :
          (th[t].op = "AddProvider" /\ th[t].pc = "returned" /\ ret[t].err = NoErr)
          => providers[Name(th[t].prov)] = th[t].prov)
  /\ [][\A t \in Threads :
          ( /\ th[t].op = "idle" /\ th'[t].op = "AddProvider"
            /\ providers[Name(th'[t].prov)] # Nil )
          => /\ th'[t].pc = "returned"
             /\ ret'[t].err = ErrAlreadyRegistered
             /\ providers' = providers
             /\ activeProvider' = activeProvider
             /\ succeeded' = succeeded]_vars

C6_Witness ==
  /\ th["t1"].op = "AddProvider" /\ th["t1"].pc = "returned"
  /\ th["t1"].prov = "p1b"
  /\ ret["t1"].err = ErrAlreadyRegistered
  /\ providers["n1"] = "p1a"
  /\ succeeded = {"p1a"}

\* C7: active-backend default.  When an AddProvider call of the provider
\* whose name is the configuration's DefaultProvider returns nil, that
\* provider is the active one, also when others were registered before.
C7_ActiveDefault ==
  \A t \in Threads :
    ( /\ th[t].op = "AddProvider" /\ th[t].pc = "returned"
      /\ ret[t].err = NoErr
      /\ Name(th[t].prov) = config.DefaultProvider )
    => activeProvider = th[t].prov

C7_Witness ==
  /\ th["t1"].op = "AddProvider" /\ th["t1"].pc = "returned"
  /\ ret["t1"].err = NoErr
  /\ th["t1"].prov = "p1a"
  /\ config.DefaultProvider = "n1"
  /\ providers["n2"] = "p2"
  /\ activeProvider = "p1a"

\* C8: switch semantics.  SwitchProvider(name) with an unregistered name
\* returns the not-found error and leaves the active provider as it was;
\* with a registered name it returns nil and the active provider is the
\* instance registered under the name; GetActiveProvider returns the
\* active provider.
C8_SwitchSemantics ==
  /\ [][\A t \in Threads :
          ( /\ th[t].op = "idle" /\ th'[t].op = "SwitchProvider"
            /\ providers[th'[t].name] = Nil )
          => /\ th'[t].pc = "returned"
             /\ ret'[t].err = ErrNotFound
             /\ activeProvider' = activeProvider
             /\ providers' = providers]_vars
  /\ [](\A t \in Threads :
          (th[t].op = "SwitchProvider" /\ th[t].pc = "returned")
          => IF providers[th[t].name] = Nil
             THEN ret[t].err = ErrNotFound
             ELSE ret[t].err = NoErr /\ activeProvider = providers[th[t].name])
  /\ [](\A t \in Threads :
          ( /\ th[t].op = "GetActiveProvider" /\ th[t].pc = "returned"
            /\ activeProvider # Nil )
          => ret[t].err = NoErr /\ ret[t].prov = activeProvider)

C8_Witness ==
  /\ th["t1"].op = "SwitchProvider" /\ th["t1"].pc = "returned"
  /\ th["t1"].name = "n2"
  /\ ret["t1"].err = NoErr
  /\ config.DefaultProvider = "n1"
  /\ providers["n1"] = "p1b"
  /\ activeProvider = "p2"

\* C9: active-reference invariant.  Between the calls of a sequential
\* caller, and while a call other than AddProvider runs, the active
\* provider is unset or is the instance the map holds under its name, and
\* it is unset only while the map is empty.
C9_ActiveReference ==
  (\A t \in Threads : th[t].op # "AddProvider" \/ th[t].pc = "returned")
  => /\ activeProvider = Nil \/ providers[Name(activeProvider)] = activeProvider
     /\ activeProvider = Nil => Empty

C9_Witness ==
  /\ th["t1"].op = "SendSMS" /\ th["t1"].pc = "returned"
  /\ ret["t1"].err = NoErr
  /\ providers["n1"] = "p1b"
  /\ providers["n2"] = "p2"
  /\ config.DefaultProvider = "n3"
  /\ activeProvider = "p1b"

\* C10: concurrent registration keeps the map intact.  Under every
\* interleaving of concurrent AddProvider calls no two callers are inside
\* the map update at the same time, at most one call per name succeeds
\* and the map holds the instance of the successful call.
C10_ConcurrentRegistration ==
  /\ Cardinality(writers) <= 1
  /\ \A p, q \in succeeded : Name(p) = Name(q) => p = q
  /\ \A p \in succeeded : providers[Name(p)] = p

\* C11: concurrent active-reference safety.  Under every interleaving of
\* concurrent AddProvider, SwitchProvider, SendSMS and SendVoiceCall calls
\* the active reference is unset or is the instance the providers map
\* currently holds under its name.
C11_ConcurrentActiveReference ==
  activeProvider = Nil \/ providers[Name(activeProvider)] = activeProvider

HasMarker(err) == ErrorIs(err, "ErrMaxAttemptsReached")
LastKind(t) == hist[t].kinds[Len(hist[t].kinds)]
HasPrefix(s, prefix) ==
  Len(s) >= Len(prefix) /\ SubSeq(s, 1, Len(prefix)) = prefix

C13_ModuleRetryBudget ==
  \A t \in Threads :
    (th[t].op \in Sends /\ th[t].pc = "returned" /\ Len(hist[t].kinds) >= 1)
    => /\ (ctx[t] = "none" /\ AllRetriable(t))
          => /\ Len(hist[t].invoked) = config.RetryAttempts
             /\ HasMarker(ret[t].err)
             /\ ret[t].resp = NoResp
       /\ LastKind(t) = "ok"
          => /\ Len(hist[t].invoked) = Len(hist[t].kinds)
             /\ Len(hist[t].invoked) <= config.RetryAttempts
             /\ \A i \in 1..(Len(hist[t].kinds) - 1) : hist[t].kinds[i] = "retriable"
             /\ ret[t].err = NoErr
             /\ ret[t].resp.ID = hist[t].invoked[Len(hist[t].invoked)]

C13_Witness ==
  /\ th["t1"].op = "SendSMS" /\ th["t1"].pc = "returned"
  /\ config.RetryAttempts = 3
  /\ ctx["t1"] = "none"
  /\ hist["t1"].kinds = <<"retriable", "retriable", "retriable">>
  /\ hist["t1"].invoked = <<"p2", "p2", "p2">>
  /\ HasMarker(ret["t1"].err)

\* C14: attempts-exhausted marks only exhausted budgets.  The error Do
\* returns carries ErrMaxAttemptsReached only when all MaxAttempts
\* invocations failed retriably; when the last invocation's failure is
\* non-retriable Do returns that error itself, unwrapped, on whichever
\* attempt it occurs.
C14_MarkerOnlyWhenExhausted ==
  \A t \in Threads :
    (th[t].op = "Do" /\ Finished(t) /\ Len(hist[t].kinds) >= 1)
    => /\ HasMarker(frame[t].result)
          => Len(hist[t].kinds) = frame[t].cfg.MaxAttempts /\ AllRetriable(t)
       /\ LastKind(t) = "fatal"
          => frame[t].result = frame[t].err /\ ~HasMarker(frame[t].result)

\* C15: cancellation stays distinguishable.  When a retry.Do call fails
\* with the caller's context done, because the select returned ctx.Err()
\* or because the last invocation returned the context's error, the
\* returned error is identifiable as that cancellation / deadline error
\* and does not carry ErrMaxAttemptsReached, on any attempt.
C15_CancellationDistinguishable ==
  \A t \in Threads :
    ( /\ th[t].op = "Do" /\ Finished(t)
      /\ ctx[t] # "none"
      /\ frame[t].result # NoErr
      /\ Len(hist[t].kinds) >= 1
      /\ frame[t].err = CtxErr(ctx[t]) \/ frame[t].result = CtxErr(ctx[t]) )
    => /\ ErrorIs(frame[t].result, ctx[t])
       /\ ~HasMarker(frame[t].result)

\* C16: attempt count in the error.  When SendSMS or SendVoiceCall fails
\* after entering retry.Do, the number of attempts the returned error
\* states is the number of provider invocations the call made.
C16_AttemptCountStated ==
  \A t \in Threads :
    ( /\ th[t].op \in Sends /\ th[t].pc = "returned"
      /\ ret[t].err # NoErr
      /\ frame[t] # NoFrame )
    => HasPrefix(ret[t].err.text,
                 (IF th[t].op = "SendSMS" THEN sSendSMSFailed ELSE sSendVoiceFailed)
                 \o Itoa(Len(hist[t].invoked)) \o sAttempts)

\* C17: response backend name.  A successful SendSMS or SendVoiceCall
\* returns the provider's response with the Provider field set to the
\* active provider's name when the provider left it empty and as the
\* provider set it otherwise; the other fields are returned unchanged.
C17_ResponseBackendName ==
  \A t \in Threads :
    (th[t].op \in Sends /\ th[t].pc = "returned" /\ ret[t].err = NoErr)
    => /\ ret[t].resp.ID = th[t].resp.ID
       /\ ret[t].resp.ID = hist[t].invoked[Len(hist[t].invoked)]
       /\ ret[t].resp.Provider =
            IF th[t].resp.Provider = "" THEN Name(activeProvider)
            ELSE th[t].resp.Provider

C17_Witness ==
  /\ th["t1"].op = "SendVoiceCall" /\ th["t1"].pc = "returned"
  /\ ret["t1"].err = NoErr
  /\ activeProvider = "p2"
  /\ th["t1"].resp = [ID |-> "p2", Provider |-> "brand"]
  /\ ret["t1"].resp = [ID |-> "p2", Provider |-> "brand"]

\* The effective data bag of the renderer's contract: the caller's bag
\* with from, to and by set to the Message's values.
IdentityOverlay(data, m) ==
  LET d0 == IF data.nil THEN MakeMap(<<>>) ELSE data
  IN  Store(Store(Store(d0, sFrom, StringValue(m.From)),
                  sTo, StringValue(m.To)),
            sBy, StringValue(m.By))
ReservedKeys == {sFrom, sTo, sBy}

\* The placeholders of a template: a "{", one or more characters that are
\* not braces, a "}".
Placeholders(t) ==
  {sp \in (1..Len(t)) \X (1..Len(t)) :
     /\ t[sp[1]] = "{" /\ t[sp[2]] = "}" /\ sp[2] > sp[1] + 1
     /\ \A k \in (sp[1] + 1)..(sp[2] - 1) : ~IsBrace(t[k])}

\* What position k of the template contributes to the output.
Piece(t, k, data) ==
  IF \E sp \in Placeholders(t) : sp[1] = k
  THEN LET sp == CHOOSE q \in Placeholders(t) : q[1] = k
           key == SubSeq(t, k + 1, sp[2] - 1)
       IN  IF key \in DOMAIN data.m THEN Sprint(data.m[key])
           ELSE SubSeq(t, k, sp[2])
  ELSE IF \E sp \in Placeholders(t) : sp[1] < k /\ k <= sp[2] THEN <<>>
  ELSE <<t[k]>>

RECURSIVE PiecesFrom(_, _, _)
PiecesFrom(t, k, data) ==
  IF k > Len(t) THEN <<>> ELSE Piece(t, k, data) \o PiecesFrom(t, k + 1, data)

\* C18: reserved-key precedence.  For every template, Message and data bag,
\* a bag that holds from, to or by included, the output of Render is the
\* template with its placeholders replaced from the bag overlaid with the
\* Message's From, To and By: {from}, {to} and {by} never take the bag's
\* values.
C18_ReservedKeyPrecedence ==
  render.calls >= 1
  => render.out = ReplaceAll(render.template, 1,
                             IdentityOverlay(render.before, render.m))

\* C19: Render is pure.  After Render returns, the caller's data bag has
\* exactly the keys and values it had before the call, and a bag built
\* without from, to and by that is used again renders the identity of the
\* Message of the later call.
C19_RenderPure ==
  render.calls >= 1
  => /\ render.data = render.before
     /\ (\A k \in ReservedKeys : ~Exists(render.orig, k))
        => render.out = ReplaceAll(render.template, 1,
                                   IdentityOverlay(render.orig, render.m))

\* C20: substitution and missing-variable policy.  In the output of Render
\* every placeholder {k} of the template whose key k is in the effective
\* data bag (the caller's bag overlaid with the Message's from, to and by)
\* is replaced by the string form of the value, every other placeholder is
\* left verbatim, the text outside placeholders is unchanged, and replaced
\* values are not scanned again.
C20_SubstitutionPolicy ==
  render.calls >= 1
  => render.out = PiecesFrom(render.template, 1,
                             IdentityOverlay(render.before, render.m))

\* C21: idempotent render.  Two consecutive Render calls with the same
\* template, the same data bag object and the same Message return the same
\* output.
C21_RenderIdempotent ==
  ( /\ render.calls >= 2
    /\ render.prev.m = render.m
    /\ render.prev.template = render.template )
  => render.out = render.prev.out

C21_Witness ==
  /\ render.calls = 2
  /\ render.prev.m = render.m /\ render.prev.template = render.template
  /\ render.template = tIdentity
  /\ render.orig = MakeMap((sName :> StringValue(sJohn)))
  /\ render.data # render.orig
  /\ render.out = render.prev.out
  /\ render.out = sSender \o <<">">> \o sGoodNumber \o <<":">> \o sTestApp

\* The last error the operation of a direct retry.Do call returned.
LastErr(t) == frame[t].err
FnReturned(t) == th[t].op = "Do" /\ Len(hist[t].kinds) >= 1 /\ LastErr(t) # NoErr

\* C22: default classifier and cancellation.  IsRetriable returns false
\* for every error that is or wraps context.Canceled or
\* context.DeadlineExceeded, whichever other rule (net.Error, url.Error,
\* message text) the error also satisfies.
C22_ClassifierCancellation ==
  \A t \in Threads :
    ( /\ FnReturned(t)
      /\ ErrorIs(LastErr(t), "Canceled") \/ ErrorIs(LastErr(t), "DeadlineExceeded") )
    => ~IsRetriable(LastErr(t))

\* C23: default classifier on HTTP errors.  For an *HTTPError IsRetriable
\* returns true exactly when StatusCode >= 500 or StatusCode = 429,
\* whatever its Message text; an unknown error is not retriable.
C23_ClassifierHTTP ==
  \A t \in Threads :
    FnReturned(t)
    => /\ ErrorIs(LastErr(t), "http")
          => (IsRetriable(LastErr(t))
                <=> (LastErr(t).status >= 500 \/ LastErr(t).status = 429))
       /\ LastErr(t) = PlainError(sInvalidPhone) => ~IsRetriable(LastErr(t))

Min(a, b) == IF a < b THEN a ELSE b

\* C24: backoff sequence.  In a retry.Do call no wait precedes the first
\* attempt, the wait before the first retry is InitialDelay capped at
\* MaxDelay, and every later wait is min(previous wait x Multiplier,
\* MaxDelay).
C24_BackoffSequence ==
  \A t \in Threads :
    th[t].op = "Do"
    => LET w == frame[t].waits
           cfg == frame[t].cfg
       IN  /\ Len(w) <= Len(hist[t].kinds)
           /\ Len(w) >= 1 => w[1] = Min(cfg.InitialDelay, cfg.MaxDelay)
           /\ \A i \in 2..Len(w) :
                w[i] = Min((w[i - 1] * cfg.Multiplier) \div 10, cfg.MaxDelay)

\* C25: invalid retry policy.  A retry.Do call with MaxAttempts <= 0
\* returns the configuration error without invoking the operation and
\* without waiting.
C25_InvalidPolicy ==
  \A t \in Threads :
    (th[t].op = "Do" /\ frame[t].cfg.MaxAttempts <= 0)
    => /\ Finished(t)
       /\ frame[t].result = PlainError(sBadPolicy)
       /\ th[t].pc = "returned" => ret[t].err = PlainError(sBadPolicy)
       /\ hist[t].invoked = <<>>
       /\ frame[t].waits = <<>>

C25_Witness ==
  /\ th["t1"].op = "Do" /\ th["t1"].pc = "returned"
  /\ frame["t1"].cfg.MaxAttempts = 0
  /\ ret["t1"].err = PlainError(sBadPolicy)
  /\ hist["t1"].invoked = <<>>

\* C26: zero retries is a usable configuration.  On a Module whose
\* configuration has retry_attempts = 0 (which Config.Validate accepts), a
\* SendSMS or SendVoiceCall call with a valid request and an active
\* provider invokes the provider exactly once and returns its result.
C26_ZeroRetriesUsable ==
  \A t \in Threads :
    ( /\ th[t].op \in Sends /\ th[t].pc = "returned"
      /\ config.RetryAttempts = 0
      /\ hist[t].active0 # Nil
      /\ ValidatePhoneNumber(th[t].req.To) /\ th[t].req.From # <<>> )
    => /\ Len(hist[t].invoked) = 1
       /\ Len(hist[t].kinds) = 1
       /\ (ret[t].err = NoErr) <=> (LastKind(t) = "ok")

\* C27: default template.  The body a provider renders for a request whose
\* Template is empty is rendered from the configuration's default template
\* (sms_template for SendSMS, voice_template for SendVoiceCall); a
\* non-empty request Template is the one rendered.
C27_DefaultTemplate ==
  render.op \in Sends
  => render.out =
       Render(render.m,
              IF render.reqTemplate # <<>> THEN render.reqTemplate
              ELSE IF render.op = "SendSMS" THEN config.SMSTemplate
              ELSE config.VoiceTemplate,
              render.before).out

\* C28: empty sender uses the provider default.  With an active provider
\* (and a retry budget of at least one attempt), a SendSMS call whose
\* request has an empty Message.From and a valid recipient is accepted: no
\* ValidationError is returned and the active provider is invoked.
C28_EmptySenderAccepted ==
  \A t \in Threads :
    ( /\ th[t].op = "SendSMS" /\ th[t].pc = "returned"
      /\ hist[t].active0 # Nil
      /\ config.RetryAttempts >= 1
      /\ th[t].req.From = <<>>
      /\ ValidatePhoneNumber(th[t].req.To) )
    => /\ ~ErrorIs(ret[t].err, "validation")
       /\ Len(hist[t].invoked) >= 1

\* C29: unsupported capability.  SendVoiceCall on a provider without voice
\* support always returns an error and never a zero-value success, the
\* error is classified non-retriable, and a Module.SendVoiceCall with a
\* valid request on such an active provider invokes it exactly once.
C29_UnsupportedCapability ==
  \A t \in Threads :
    ( /\ th[t].op = "SendVoiceCall" /\ th[t].pc = "returned"
      /\ hist[t].active0 # Nil /\ ~SupportsVoice(hist[t].active0)
      /\ ValidatePhoneNumber(th[t].req.To) /\ th[t].req.From # <<>> )
    => /\ ret[t].err # NoErr
       /\ ret[t].resp = NoResp
       /\ ~IsRetriable(ErrVoiceUnsupported)
       /\ hist[t].invoked = <<hist[t].active0>>

\* C30: configuration validity.  Config.Validate accepts a configuration
\* exactly when the default provider is non-empty, the providers map is
\* non-empty and contains the default provider, the HTTP timeout is > 0,
\* retry attempts are >= 0, the retry delay is > 0 whenever retry attempts
\* are > 0, and the SMS and the voice template are non-empty; otherwise it
\* returns an error.
C30_ConfigValidity ==
  \A t \in Threads :
    (th[t].op = "Validate" /\ th[t].pc = "returned")
    => ( (ret[t].err = NoErr)
         <=> /\ config.DefaultProvider # ""
             /\ ~config.Providers.nil /\ config.Providers.keys # {}
             /\ config.DefaultProvider \in config.Providers.keys
             /\ config.HTTPTimeout > 0
             /\ config.RetryAttempts >= 0
             /\ config.RetryAttempts > 0 => config.RetryDelay > 0
             /\ config.SMSTemplate # <<>>
             /\ config.VoiceTemplate # <<>> )

C30_Witness ==
  /\ th["t1"].op = "Validate" /\ th["t1"].pc = "returned"
  /\ ret["t1"].err = NoErr
  /\ config.RetryAttempts = 0 /\ config.RetryDelay = 0
  /\ config.DefaultProvider = "n1" /\ config.Providers.keys = {"n1"}

Digits == {DigitChars[d] : d \in 1..10}
Formatting == {" ", "-", "(", ")"}

\* C31: phone-number check.  ValidatePhoneNumber(s) is true exactly when
\* s holds only digits, spaces, hyphens, parentheses and at most one "+"
\* that precedes every digit and every other "+" (so that it leads once
\* the formatting is removed), and at least 8 digits.
C31_PhoneNumberCheck ==
  \A t \in Threads :
    (th[t].op = "ValidatePhoneNumber" /\ th[t].pc = "returned")
    => LET s == th[t].arg
       IN  ret[t].ok
           <=> /\ \A i \in 1..Len(s) : s[i] \in Digits \cup Formatting \cup {"+"}
               /\ \A i \in 1..Len(s) :
                    s[i] = "+" => \A j \in 1..(i - 1) : s[j] \in Formatting
               /\ Cardinality({i \in 1..Len(s) : s[i] \in Digits}) >= 8

C31_Witness ==
  /\ th["t1"].op = "ValidatePhoneNumber" /\ th["t1"].pc = "returned"
  /\ th["t1"].arg = sFormattedNumber
  /\ ret["t1"].ok

AddRunning(t) ==
  th[t].op = "AddProvider"
  /\ th[t].pc \in {"add_write", "add_writing", "add_active", "add_store"}

ReadOps == {"GetProvider", "GetActiveProvider", "SendSMS", "SendVoiceCall"}

\* C33: reads and failures leave the registry alone.  No step of a
\* GetProvider, GetActiveProvider, SendSMS or SendVoiceCall call changes the
\* providers map or the active reference, whatever the call returns, and
\* neither does an AddProvider or SwitchProvider call that returns an error.
C33_ReadsAndFailuresFrame ==
  [][\A t \in Threads :
       (/\ th'[t] # th[t]
        /\ \/ th'[t].op \in ReadOps
           \/ /\ th'[t].op \in {"AddProvider", "SwitchProvider"}
              /\ th[t].op = "idle"
              /\ th'[t].pc = "returned"
              /\ ret'[t].err # NoErr)
       => /\ providers' = providers
          /\ activeProvider' = activeProvider]_vars

C33_Witness ==
  /\ th["t1"].op = "SwitchProvider" /\ th["t1"].pc = "returned"
  /\ ret["t1"].err = ErrNotFound
  /\ th["t1"].name = "n2"
  /\ providers["n1"] = "p1a"
  /\ activeProvider = "p1a"

\* C34: one backend per send.  Every provider invocation made by a
\* SendSMS/SendVoiceCall call goes to the provider that was active when the
\* call started, whatever SwitchProvider and AddProvider do concurrently
\* between its attempts.
C34_OneBackendPerSend ==
  \A t \in Threads :
    th[t].op \in Sends
    => \A i \in 1..Len(hist[t].invoked) : hist[t].invoked[i] = hist[t].active0

\* C35: response attribution under concurrency.  The name filled into an
\* empty Provider field of a returned response is the name of the provider
\* that produced the response.
C35_ResponseAttribution ==
  \A t \in Threads :
    (/\ th[t].op \in Sends /\ th[t].pc = "returned"
     /\ ret[t].err = NoErr
     /\ th[t].resp.Provider = "")
    => ret[t].resp.Provider = Name(ret[t].resp.ID)

Max(a, b) == IF a >= b THEN a ELSE b

\* C36: retry always terminates.  Every call to retry.Do eventually
\* returns, having invoked the operation at most MaxAttempts times and
\* waited at most MaxAttempts - 1 times, provided each invocation returns
\* and each wait ends by its timer firing or by the context being done.
C36_RetryTerminates ==
  /\ [](\A t \in Threads :
          th[t].op = "Do"
          => /\ Len(hist[t].invoked) <= Max(frame[t].cfg.MaxAttempts, 0)
             /\ Len(frame[t].waits) <= Max(frame[t].cfg.MaxAttempts - 1, 0))
  /\ (th["t1"].op = "Do") ~> (th["t1"].op = "Do" /\ th["t1"].pc = "returned")

C36_Witness ==
  /\ th["t1"].op = "Do" /\ th["t1"].pc = "returned"
  /\ frame["t1"].cfg.MaxAttempts = MaxAttemptsBound
  /\ Len(hist["t1"].invoked) = MaxAttemptsBound
  /\ Len(frame["t1"].waits) = MaxAttemptsBound - 1
  /\ ctx["t1"] = "none"

\* A direct retry.Do call with MaxAttempts >= 1 whose context was done
\* before or during one of its invocations.
SignalAtInvocation(t) ==
  /\ th[t].op = "Do"
  /\ frame[t].cfg.MaxAttempts >= 1
  /\ hist[t].cancelPc \in {"attempt", "in_fn"}

\* The invocation that was about to start or was running when the signal fired.
SignalledCall(t) ==
  IF hist[t].cancelPc = "in_fn" THEN hist[t].cancelCalls ELSE hist[t].cancelCalls + 1

\* C37: context is observed only between attempts.  With MaxAttempts >= 1
\* a finished retry.Do call has invoked the operation at least once, also
\* when the context was done on entry.  When the signal fired before or
\* during invocation k, no invocation after k is made: the call ends as if
\* there were no signal when invocation k succeeded, was the last one or
\* failed with a non-retriable error (there is no following wait), and
\* otherwise it ends in the wait that follows invocation k with ctx.Err().
C37_ContextBetweenAttempts ==
  \A t \in Threads :
    /\ SignalAtInvocation(t) => Len(hist[t].invoked) <= SignalledCall(t)
    /\ (th[t].op = "Do" /\ frame[t].cfg.MaxAttempts >= 1 /\ Finished(t))
       => /\ Len(hist[t].invoked) >= 1
          /\ SignalAtInvocation(t)
             => LET k == SignalledCall(t)
                IN  /\ Len(hist[t].kinds) = k
                    /\ IF hist[t].kinds[k] = "ok"
                       THEN frame[t].result = NoErr
                       ELSE IF k = frame[t].cfg.MaxAttempts
                       THEN frame[t].result = WrapMaxAttempts(frame[t].err)
                       ELSE IF hist[t].kinds[k] = "fatal"
                       THEN frame[t].result = frame[t].err
                       ELSE /\ frame[t].result = CtxErr(ctx[t])
                            /\ Len(frame[t].waits) = k

\* C38: result shape of a send.  A returned SendSMS/SendVoiceCall call
\* carries either a nil error and the response of its last provider
\* invocation, which succeeded, or a non-nil error and the zero response:
\* never a nil error after a failed last invocation, never response data
\* alongside an error.
C38_ResultShape ==
  \A t \in Threads :
    (th[t].op \in Sends /\ th[t].pc = "returned")
    => IF ret[t].err = NoErr
       THEN /\ Len(hist[t].kinds) >= 1
            /\ LastKind(t) = "ok"
            /\ ret[t].resp.ID = th[t].resp.ID
            /\ ret[t].resp.ID = hist[t].invoked[Len(hist[t].invoked)]
       ELSE /\ ret[t].resp = NoResp
            /\ Len(hist[t].kinds) >= 1 => LastKind(t) # "ok"

C38_Witness ==
  /\ th["t1"].op = "SendSMS" /\ th["t1"].pc = "returned"
  /\ ret["t1"].err # NoErr
  /\ ret["t1"].resp = NoResp
  /\ th["t1"].resp = [ID |-> "p2", Provider |-> ""]
  /\ hist["t1"].kinds = <<"retriable", "fatal">>

\* C39: the two HTTP classifiers agree.  For every status code c,
\* IsRetriableHTTPCode(c) equals IsRetriable of an HTTPError with status c
\* and a neutral message, and both are true exactly for the 5xx codes and
\* 429.
C39_ClassifiersAgree ==
  \A t \in Threads :
    (th[t].op = "IsRetriableHTTPCode" /\ th[t].pc = "returned")
    => /\ ret[t].ok = IsRetriable(ret[t].err)
       /\ ret[t].ok = (ret[t].err.status \in 500..599 \/ ret[t].err.status = 429)

\* The first maximal run of digits of a message that has a digit.
FirstRun(message) ==
  LET start == CHOOSE i \in 1..Len(message) :
                 /\ message[i] \in Digits
                 /\ \A j \in 1..(i - 1) : message[j] \notin Digits
      end == CHOOSE k \in start..Len(message) :
               /\ \A j \in start..k : message[j] \in Digits
               /\ k = Len(message) \/ message[k + 1] \notin Digits
  IN  SubSeq(message, start, end)

\* C40: OTP extraction for voice calls.  extractOTPFromMessage returns
\* the first complete run of consecutive digits of the message, whatever
\* its length, and the whole message when it contains no digit.
C40_OTPExtraction ==
  \A t \in Threads :
    (th[t].op = "extractOTPFromMessage" /\ th[t].pc = "returned")
    => ret[t].str = IF \E i \in 1..Len(th[t].arg) : th[t].arg[i] \in Digits
                    THEN FirstRun(th[t].arg)
                    ELSE th[t].arg
====
